---- MODULE Spec2Model ----
(***************************************************************************)
(* Model of ch4/inc/loader.cpp: load_binary (dispatcher), the libelfmaster *)
(* backend (load_binary_lem, "Backend A"), the BFD backend                 *)
(* (load_binary_bfd, "Backend B") and unload_binary.                       *)
(*                                                                         *)
(* The two parsing libraries are external: every answer they give (open    *)
(* accepted or not, detected machine, symbol tables, iterator results) and *)
(* every malloc result is a nondeterministic choice made at the step where *)
(* the code asks for it.  The section table of the file on disk is chosen  *)
(* when a backend first reads it and is the same for both backends of one  *)
(* load_binary call.                                                       *)
(***************************************************************************)
EXTENDS Integers, Sequences, FiniteSets, TLC

\* ------------------------------------------------------------------ bounds
MaxSecs == 2
MaxSyms == 1
MaxOpenHandles == 1

\* --------------------------------------------------------------- constants
NULL == 0

BinaryTypes == {"BIN_TYPE_AUTO", "BIN_TYPE_ELF", "BIN_TYPE_PE"}

\* elf_arch_t values of obj.arch
LemMachs == {"i386", "x64", "unsupported"}

\* bfd_info->mach values: the two the switch names, and any other
BfdMachs == {"bfd_mach_i386_i386", "bfd_mach_x86_64", "bfd_mach_other"}

\* bfd_h->xvec->flavour values: the three the code names, and any other
BfdFlavours == {"bfd_target_elf_flavour", "bfd_target_coff_flavour",
                "bfd_target_unknown_flavour", "bfd_target_other_flavour"}

\* results of the libelfmaster iterators other than ELF_ITER_OK
IterEnds == {"ELF_ITER_DONE", "ELF_ITER_ERROR"}

\* outcomes of reading one BFD symbol table
BfdTabOutcomes == {"bound_negative", "bound_zero", "malloc_failed",
                   "canonicalize_failed", "read"}

\* A section of the file on disk: executable, allocated/loadable, without
\* backing bytes (SHT_NOBITS), and its declared size.  Only an allocated
\* section is executable or without backing bytes.
FileSections(i) ==
  { s \in { [exec |-> e, alloc |-> a, nobits |-> n, size |-> i] :
              e \in BOOLEAN, a \in BOOLEAN, n \in BOOLEAN } :
      (s.exec \/ s.nobits) => s.alloc }

Files ==
  UNION { { f \in [1..n -> UNION { FileSections(i) : i \in 1..MaxSecs }] :
              \A i \in 1..n : f[i] \in FileSections(i) } : n \in 0..MaxSecs }

\* symbol tables as libelfmaster yields them: the st_type of each entry
LemTabs ==
  UNION { [1..n -> {"STT_FUNC", "STT_OBJECT"}] : n \in 0..MaxSyms }

\* symbol tables as BFD yields them: the flags of each asymbol
BfdTabs ==
  UNION { [1..n -> {"BSF_FUNCTION", "BSF_OBJECT"}] : n \in 0..MaxSyms }

\* Binary() as constructed by the caller
EmptyBinary ==
  [ filename |-> "", type |-> "BIN_TYPE_AUTO", type_str |-> "",
    entry |-> "unset", arch |-> "ARCH_NONE", arch_str |-> "", bits |-> 0,
    sections |-> << >>, symbols |-> << >> ]

VARIABLES
  pc,          \* position of the single thread
  call,        \* the current / last load_binary call: its hint, what each
               \* backend returned (<< >> while it has not) and diagnosed,
               \* obj.arch, and what load_binary returned
  file,        \* the section table of the file on disk, once it was read
  bin,         \* the caller's Binary
  heap,        \* live malloc'd buffers: address -> length
  badFree,     \* TRUE once free() was given an address that is not live
  lemObj,      \* number of open libelfmaster objects
  bfdHandles,  \* number of open BFD handles
  bfd_inited,  \* static int bfd_inited of open_bfd
  initCount,   \* number of bfd_init() calls so far
  bfdUsed,     \* TRUE once load_binary_bfd was invoked
  iter,        \* position of the section iterator of the running backend
  lastTab,     \* the symbol table function that has just returned
  stage        \* "new", "loading", "loaded", "unloaded", "unloaded_again"

vars ==
  << pc, call, file, bin, heap, badFree, lemObj, bfdHandles, bfd_inited,
     initCount, bfdUsed, iter, lastTab, stage >>

NoCall ==
  [ type |-> "none", retLem |-> << >>, errLem |-> "none", lemMach |-> "none",
    retBfd |-> << >>, errBfd |-> "none", ret |-> << >> ]

NoFile == [known |-> FALSE, secs |-> << >>]

NoTab == [backend |-> "none", table |-> "none", status |-> "none", before |-> 0]

\* ------------------------------------------------------------------ heap
\* malloc returns an address that is not live; the lowest one stands for it
NewAddr(h) ==
  CHOOSE a \in 1..(Cardinality(DOMAIN h) + 1) :
    a \notin DOMAIN h /\ \A b \in 1..(a - 1) : b \in DOMAIN h

HeapWith(h, a, n) ==
  [x \in DOMAIN h \cup {a} |-> IF x = a THEN n ELSE h[x]]

HeapWithout(h, S) ==
  [x \in DOMAIN h \ S |-> h[x]]

Range(s) == { s[i] : i \in DOMAIN s }

LiveBytes(secs) == { s.bytes : s \in Range(secs) } \ {NULL}

\* free(p) for every p in F: a live address leaves the heap, any other one
\* is a double / invalid free
HeapAfterFree(h, F) == HeapWithout(h, F \cap DOMAIN h)

BadFree(h, F) == ~(F \subseteq DOMAIN h)

\* the loop "for(auto &sec : bin->sections) if(sec.bytes) { free(sec.bytes);
\* sec.bytes = NULL; }": the sections it leaves and the addresses it frees
ReleaseLoop(secs) ==
  [ sections |-> [i \in DOMAIN secs |-> [secs[i] EXCEPT !.bytes = NULL]],
    freed    |-> LiveBytes(secs) ]

\* mutations of that loop: the pointer is not reset; the last section is missed
ReleaseLoopKeepPointer(secs) ==
  [ sections |-> secs, freed |-> LiveBytes(secs) ]

ReleaseLoopSkipLast(secs) ==
  [ sections |-> [i \in DOMAIN secs |->
                    IF i < Len(secs) THEN [secs[i] EXCEPT !.bytes = NULL]
                    ELSE secs[i]],
    freed    |-> LiveBytes(SubSeq(secs, 1, Len(secs) - 1)) ]

UnloadLoop(secs) == ReleaseLoop(secs)

LemRollback(secs) == ReleaseLoop(secs)

BfdRollback(secs) == ReleaseLoop(secs)

\* ------------------------------------------------------------ dispatcher
\* switch(type): AUTO and ELF enter load_binary_lem, PE and default enter
\* load_binary_bfd
FirstBackend(t) ==
  IF t \in {"BIN_TYPE_AUTO", "BIN_TYPE_ELF"} THEN "lem" ELSE "bfd"

\* if(ret == 0 || type == Binary::BIN_TYPE_ELF) return ret;
ReturnsAfterLemOnlyOnSuccess(t, r) == r = 0

ReturnsAfterLemAlways(t, r) == TRUE

ReturnsAfterLem(t, r) == r = 0 \/ t = "BIN_TYPE_ELF"

\* ------------------------------------------------------------- Backend A
\* switch(obj.arch)
LemArchGuessDefault(m) ==
  IF m = "i386"
  THEN [ok |-> TRUE, arch_str |-> "X86", arch |-> "ARCH_X86", bits |-> 32]
  ELSE [ok |-> TRUE, arch_str |-> "X86_64", arch |-> "ARCH_X86", bits |-> 64]

LemArch(m) ==
  CASE m = "i386" ->
         [ok |-> TRUE, arch_str |-> "X86", arch |-> "ARCH_X86", bits |-> 32]
    [] m = "x64" ->
         [ok |-> TRUE, arch_str |-> "X86_64", arch |-> "ARCH_X86", bits |-> 64]
    [] OTHER ->
         [ok |-> FALSE, arch_str |-> "", arch |-> "ARCH_NONE", bits |-> 0]

\* a Symbol pushed for a table entry; "from" stands for the entry's name and
\* value and keeps what kind of entry it was
SymbolOf(entry) == [type |-> "SYM_TYPE_FUNC", from |-> entry]

\* load_symbols_lem / load_dynsym_lem: the Symbols appended.  The table is
\* what the iterator yields before it answers anything but ELF_ITER_OK.
LoadSymbolsLem(present, tab) ==
  IF ~present THEN << >>
  ELSE LET keep(e) == e = "STT_FUNC"
           kept == SelectSeq(tab, keep)
       IN [i \in DOMAIN kept |-> SymbolOf(kept[i])]

\* the classification in load_sections_lem
LemSectionType(s) ==
  IF s.nobits THEN "skip"
  ELSE IF s.exec THEN "SEC_TYPE_CODE"
  ELSE IF s.alloc THEN "SEC_TYPE_DATA"
  ELSE "skip"

\* ------------------------------------------------------------- Backend B
\* if(!bfd_inited) in open_bfd
NeedInitAlways(inited) == TRUE

NeedInit(inited) == inited = 0

\* switch(bfd_h->xvec->flavour)
BfdType(flav) ==
  CASE flav = "bfd_target_elf_flavour" -> "BIN_TYPE_ELF"
    [] flav = "bfd_target_coff_flavour" -> "BIN_TYPE_PE"
    [] OTHER -> "fail"

\* switch(bfd_info->mach)
BfdArch(m) ==
  CASE m = "bfd_mach_i386_i386" -> [ok |-> TRUE, arch |-> "ARCH_X86", bits |-> 32]
    [] m = "bfd_mach_x86_64" -> [ok |-> TRUE, arch |-> "ARCH_X86", bits |-> 64]
    [] OTHER -> [ok |-> FALSE, arch |-> "ARCH_NONE", bits |-> 0]

\* load_symbols_bfd / load_dynsym_bfd: the return value and the Symbols
\* appended, for each outcome of the library calls
LoadSymbolsBfdKeepOnError(outcome, tab) ==
  [ ret  |-> IF outcome \in {"bound_zero", "read"} THEN 0 ELSE -1,
    syms |-> IF outcome = "bound_zero" THEN << >>
             ELSE [i \in DOMAIN tab |-> SymbolOf(tab[i])] ]

LoadSymbolsBfd(outcome, tab) ==
  [ ret  |-> IF outcome \in {"bound_zero", "read"} THEN 0 ELSE -1,
    syms |-> IF outcome = "read"
             THEN LET keep(fl) == fl = "BSF_FUNCTION"
                      kept == SelectSeq(tab, keep)
                  IN [i \in DOMAIN kept |-> SymbolOf(kept[i])]
             ELSE << >> ]

\* bfd_get_section_flags, as libbfd derives the flags of a section:
\* SEC_CODE for an executable one, SEC_DATA for a loaded one with contents
BfdSectionFlags(s) ==
  (IF s.exec THEN {"SEC_CODE"} ELSE {})
    \cup (IF s.alloc /\ ~s.nobits /\ ~s.exec THEN {"SEC_DATA"} ELSE {})
    \cup (IF ~s.nobits THEN {"SEC_HAS_CONTENTS"} ELSE {})

\* the classification in load_sections_bfd
BfdSectionType(flags) ==
  IF "SEC_CODE" \in flags THEN "SEC_TYPE_CODE"
  ELSE IF "SEC_DATA" \in flags THEN "SEC_TYPE_DATA"
  ELSE "skip"

\* a Section as both backends fill it; idx stands for name and vma
NewSection(idx, t, size, bytes) ==
  [idx |-> idx, type |-> t, size |-> size, bytes |-> bytes]

\* ------------------------------------------------------------------ Init
Init ==
  /\ pc = "idle"
  /\ call = NoCall
  /\ file = NoFile
  /\ bin = EmptyBinary
  /\ heap = << >>
  /\ badFree = FALSE
  /\ lemObj = 0
  /\ bfdHandles = 0
  /\ bfd_inited = 0
  /\ initCount = 0
  /\ bfdUsed = FALSE
  /\ iter = 0
  /\ lastTab = NoTab
  /\ stage = "new"

\* ------------------------------------------------------------ the caller
\* load_binary(fname, bin, t) is called on an empty Binary; the switch picks
\* the first backend.  No call is made once MaxOpenHandles BFD handles are
\* open.
Load(t) ==
  /\ pc = "idle"
  /\ bfdHandles < MaxOpenHandles
  /\ bin = EmptyBinary
  /\ pc' = FirstBackend(t)
  /\ call' = [NoCall EXCEPT !.type = t]
  /\ file' = NoFile
  /\ bfdUsed' = (bfdUsed \/ FirstBackend(t) = "bfd")
  /\ stage' = "loading"
  /\ UNCHANGED << bin, heap, badFree, lemObj, bfdHandles, bfd_inited, initCount,
                  iter, lastTab >>

\* unload_binary(bin)
Unload ==
  /\ pc = "idle"
  /\ LET r == UnloadLoop(bin.sections)
     IN /\ bin' = [bin EXCEPT !.sections = r.sections]
        /\ heap' = HeapAfterFree(heap, r.freed)
        /\ badFree' = (badFree \/ BadFree(heap, r.freed))
  /\ stage' = IF stage \in {"unloaded", "unloaded_again"}
               THEN "unloaded_again" ELSE "unloaded"
  /\ call' = [NoCall EXCEPT !.ret = call.ret]
  /\ file' = NoFile
  /\ UNCHANGED << pc, lemObj, bfdHandles, bfd_inited, initCount, bfdUsed, iter,
                  lastTab >>

\* the caller destroys a Binary whose buffers are released and constructs a
\* new one
NewBinary ==
  /\ pc = "idle"
  /\ stage # "new"
  /\ LiveBytes(bin.sections) = {}
  /\ bin' = EmptyBinary
  /\ stage' = "new"
  /\ call' = NoCall
  /\ file' = NoFile
  /\ UNCHANGED << pc, heap, badFree, lemObj, bfdHandles, bfd_inited, initCount,
                  bfdUsed, iter, lastTab >>

\* the section table a backend reads: the one read before in this call, or
\* any
FileChoices == IF file.known THEN {file.secs} ELSE Files

\* ------------------------------------------------------------- Backend A
\* load_binary_lem returns r with diagnostic e: back in load_binary
LemReturns(r, e, m) ==
  /\ call' = [call EXCEPT !.retLem = << r >>, !.errLem = e, !.lemMach = m]
  /\ iter' = 0
  /\ lastTab' = NoTab
  /\ pc' = "lem_ret"

\* load_binary_lem up to the symbol handling: elf_open_object, the header
\* fields, switch(obj.arch)
LemOpen ==
  /\ pc = "lem"
  /\ \E opened \in BOOLEAN, m \in LemMachs :
       IF ~opened
       THEN /\ LemReturns(-1, "open", "none")
            /\ UNCHANGED << bin, lemObj >>
       ELSE LET a == LemArch(m)
                b == [bin EXCEPT !.filename = "fname", !.type = "BIN_TYPE_ELF",
                                 !.entry = "elf_entry_point",
                                 !.type_str = "unknown"]
            IN IF a.ok
               THEN /\ bin' = [b EXCEPT !.arch_str = a.arch_str,
                                        !.arch = a.arch, !.bits = a.bits]
                    /\ lemObj' = lemObj + 1
                    /\ call' = [call EXCEPT !.lemMach = m]
                    /\ pc' = "lem_symtab"
                    /\ UNCHANGED << iter, lastTab >>
               ELSE \* goto fail; elf_close_object(&obj)
                    /\ bin' = b
                    /\ lemObj' = lemObj
                    /\ LemReturns(-1, "arch", m)
  /\ UNCHANGED << file, heap, badFree, bfdHandles, bfd_inited, initCount,
                  bfdUsed, stage >>

\* one of load_symbols_lem / load_dynsym_lem: its return value is not used
LemTable(at, name, next) ==
  /\ pc = at
  /\ \E present \in BOOLEAN, tab \in LemTabs, end \in IterEnds :
       /\ bin' = [bin EXCEPT !.symbols = @ \o LoadSymbolsLem(present, tab)]
       /\ lastTab' = [backend |-> "lem", table |-> name,
                      status |-> IF ~present THEN "absent"
                                 ELSE IF end = "ELF_ITER_ERROR" THEN "error"
                                 ELSE "read",
                      before |-> Len(bin.symbols)]
  /\ pc' = next
  /\ UNCHANGED << call, file, heap, badFree, lemObj, bfdHandles, bfd_inited,
                  initCount, bfdUsed, iter, stage >>

LemSymtab == LemTable("lem_symtab", "symtab", "lem_dynsym")

LemDynsym == LemTable("lem_dynsym", "dynsym", "lem_sections")

\* load_sections_lem without ELF_SHDRS_F: return 0, then cleanup
LemNoSections ==
  /\ pc = "lem_sections"
  /\ iter = 0
  /\ lemObj' = lemObj - 1
  /\ LemReturns(0, "none", call.lemMach)
  /\ UNCHANGED << file, bin, heap, badFree, bfdHandles, bfd_inited, initCount,
                  bfdUsed, stage >>

\* one turn of the loop of load_sections_lem; when the loop ends or fails,
\* the rest of load_binary_lem (cleanup: elf_close_object)
LemSection ==
  /\ pc = "lem_sections"
  /\ \E f \in FileChoices, end \in IterEnds \cup {"ELF_ITER_OK"},
        allocated \in BOOLEAN :
       /\ file' = [known |-> TRUE, secs |-> f]
       /\ end = "ELF_ITER_OK" => iter < Len(f)
       /\ end = "ELF_ITER_DONE" => iter = Len(f)
       /\ IF end # "ELF_ITER_OK"
          THEN /\ lemObj' = lemObj - 1
               /\ LemReturns(0, "none", call.lemMach)
               /\ UNCHANGED << bin, heap, badFree >>
          ELSE LET s == f[iter + 1]
                   t == LemSectionType(s)
                   a == NewAddr(heap)
               IN IF t = "skip"
                  THEN /\ iter' = iter + 1
                       /\ lastTab' = NoTab
                       /\ UNCHANGED << bin, heap, badFree, lemObj, call, pc >>
                  ELSE IF allocated
                  THEN /\ iter' = iter + 1
                       /\ lastTab' = NoTab
                       /\ heap' = HeapWith(heap, a, s.size)
                       /\ bin' = [bin EXCEPT !.sections =
                                    Append(@, NewSection(iter + 1, t, s.size, a))]
                       /\ UNCHANGED << badFree, lemObj, call, pc >>
                  ELSE \* malloc returned NULL: goto fail, s is not pushed
                       LET r == LemRollback(bin.sections)
                       IN /\ bin' = [bin EXCEPT !.sections = r.sections]
                          /\ heap' = HeapAfterFree(heap, r.freed)
                          /\ badFree' = (badFree \/ BadFree(heap, r.freed))
                          /\ lemObj' = lemObj - 1
                          /\ LemReturns(-1, "alloc", call.lemMach)
  /\ UNCHANGED << bfdHandles, bfd_inited, initCount, bfdUsed, stage >>

\* load_binary after load_binary_lem: return ret, or fall through to
\* load_binary_bfd
AfterLem ==
  /\ pc = "lem_ret"
  /\ IF ReturnsAfterLem(call.type, call.retLem[1])
     THEN /\ call' = [call EXCEPT !.ret = call.retLem]
          /\ pc' = "idle"
          /\ stage' = "loaded"
          /\ UNCHANGED bfdUsed
     ELSE /\ pc' = "bfd"
          /\ bfdUsed' = TRUE
          /\ UNCHANGED << call, stage >>
  /\ UNCHANGED << file, bin, heap, badFree, lemObj, bfdHandles, bfd_inited,
                  initCount, iter, lastTab >>

\* ------------------------------------------------------------- Backend B
\* load_binary_bfd returns r with diagnostic e, and load_binary returns it
BfdReturns(r, e) ==
  /\ call' = [call EXCEPT !.retBfd = << r >>, !.errBfd = e, !.ret = << r >>]
  /\ iter' = 0
  /\ lastTab' = NoTab
  /\ pc' = "idle"
  /\ stage' = "loaded"

\* load_binary_bfd up to the symbol handling: open_bfd (the guarded
\* bfd_init, bfd_openr, bfd_check_format, bfd_get_flavour), the header
\* fields, switch(flavour), switch(mach); on failure, cleanup closes bfd_h
\* when it is not NULL
BfdOpen ==
  /\ pc = "bfd"
  /\ bfd_inited' = 1
  /\ initCount' = IF NeedInit(bfd_inited) THEN initCount + 1 ELSE initCount
  /\ \E opened \in BOOLEAN, object \in BOOLEAN, flav \in BfdFlavours,
        m \in BfdMachs :
       IF ~opened
       THEN \* bfd_openr returned NULL
            /\ BfdReturns(-1, "open")
            /\ UNCHANGED << bin, bfdHandles >>
       ELSE IF ~object
       THEN \* open_bfd returns NULL, the handle stays open
            /\ bfdHandles' = bfdHandles + 1
            /\ BfdReturns(-1, "format")
            /\ UNCHANGED bin
       ELSE IF flav = "bfd_target_unknown_flavour"
       THEN \* open_bfd returns NULL, the handle stays open
            /\ bfdHandles' = bfdHandles + 1
            /\ BfdReturns(-1, "flavour")
            /\ UNCHANGED bin
       ELSE LET b == [bin EXCEPT !.filename = "fname",
                                 !.entry = "bfd_get_start_address",
                                 !.type_str = "xvec_name"]
                a == BfdArch(m)
            IN IF BfdType(flav) = "fail"
               THEN \* goto fail; bfd_close(bfd_h)
                    /\ bin' = b
                    /\ bfdHandles' = bfdHandles
                    /\ BfdReturns(-1, "type")
               ELSE IF ~a.ok
               THEN \* goto fail; bfd_close(bfd_h)
                    /\ bin' = [b EXCEPT !.type = BfdType(flav),
                                        !.arch_str = "printable_name"]
                    /\ bfdHandles' = bfdHandles
                    /\ BfdReturns(-1, "arch")
               ELSE /\ bin' = [b EXCEPT !.type = BfdType(flav),
                                        !.arch_str = "printable_name",
                                        !.arch = a.arch, !.bits = a.bits]
                    /\ bfdHandles' = bfdHandles + 1
                    /\ pc' = "bfd_symtab"
                    /\ UNCHANGED << call, stage, iter, lastTab >>
  /\ UNCHANGED << file, heap, badFree, lemObj, bfdUsed >>

\* one of load_symbols_bfd / load_dynsym_bfd: its return value is not used
BfdTable(at, name, next) ==
  /\ pc = at
  /\ \E outcome \in BfdTabOutcomes, tab \in BfdTabs :
       LET r == LoadSymbolsBfd(outcome, tab)
       IN /\ bin' = [bin EXCEPT !.symbols = @ \o r.syms]
          /\ lastTab' = [backend |-> "bfd", table |-> name,
                         status |-> IF outcome = "bound_zero" THEN "absent"
                                    ELSE IF r.ret < 0 THEN "error"
                                    ELSE "read",
                         before |-> Len(bin.symbols)]
  /\ pc' = next
  /\ UNCHANGED << call, file, heap, badFree, lemObj, bfdHandles, bfd_inited,
                  initCount, bfdUsed, iter, stage >>

BfdSymtab == BfdTable("bfd_symtab", "symtab", "bfd_dynsym")

BfdDynsym == BfdTable("bfd_dynsym", "dynsym", "bfd_sections")

\* one turn of the loop of load_sections_bfd; when the loop ends or fails,
\* the rest of load_binary_bfd (cleanup: bfd_close) and of load_binary
BfdSection ==
  /\ pc = "bfd_sections"
  /\ \E f \in FileChoices :
       /\ file' = [known |-> TRUE, secs |-> f]
       /\ IF iter = Len(f)
          THEN /\ bfdHandles' = bfdHandles - 1
               /\ BfdReturns(0, "none")
               /\ UNCHANGED << bin, heap, badFree >>
          ELSE LET s == f[iter + 1]
                   t == BfdSectionType(BfdSectionFlags(s))
                   a == NewAddr(heap)
               IN IF t = "skip"
                  THEN /\ iter' = iter + 1
                       /\ lastTab' = NoTab
                       /\ UNCHANGED << bin, heap, badFree, bfdHandles, call, pc,
                                       stage >>
                  ELSE \E allocated \in BOOLEAN, contents \in BOOLEAN :
                         IF allocated /\ contents
                         THEN /\ iter' = iter + 1
                              /\ lastTab' = NoTab
                              /\ heap' = HeapWith(heap, a, s.size)
                              /\ bin' = [bin EXCEPT !.sections =
                                           Append(@, NewSection(iter + 1, t,
                                                                s.size, a))]
                              /\ UNCHANGED << badFree, bfdHandles, call, pc,
                                              stage >>
                         ELSE \* the Section is pushed already: goto fail
                              LET p == IF allocated THEN a ELSE NULL
                                  pushed == Append(bin.sections,
                                              NewSection(iter + 1, t, s.size, p))
                                  h == IF allocated
                                       THEN HeapWith(heap, a, s.size) ELSE heap
                                  r == BfdRollback(pushed)
                              IN /\ bin' = [bin EXCEPT !.sections = r.sections]
                                 /\ heap' = HeapAfterFree(h, r.freed)
                                 /\ badFree' = (badFree \/ BadFree(h, r.freed))
                                 /\ bfdHandles' = bfdHandles - 1
                                 /\ BfdReturns(-1, IF allocated THEN "read"
                                                   ELSE "alloc")
  /\ UNCHANGED << lemObj, bfd_inited, initCount, bfdUsed >>

\* ------------------------------------------------------------------ Next
Next ==
  \/ \E t \in BinaryTypes : Load(t)
  \/ Unload
  \/ NewBinary
  \/ LemOpen
  \/ LemSymtab
  \/ LemDynsym
  \/ LemNoSections
  \/ LemSection
  \/ AfterLem
  \/ BfdOpen
  \/ BfdSymtab
  \/ BfdDynsym
  \/ BfdSection

Spec == Init /\ [][Next]_vars

\* ---------------------------------------------------------- properties
LemPcs == {"lem", "lem_symtab", "lem_dynsym", "lem_sections", "lem_ret"}

BfdPcs == {"bfd", "bfd_symtab", "bfd_dynsym", "bfd_sections"}

\* the backend was invoked in the current / last load_binary call
InvokedA == pc \in LemPcs \/ call.retLem # << >>

InvokedB == pc \in BfdPcs \/ call.retBfd # << >>

\* load_binary has returned and the caller has done nothing since
Returned == pc = "idle" /\ stage = "loaded"

NullSections(secs) == { i \in DOMAIN secs : secs[i].bytes = NULL }

\* C1: under hint ELF load_binary_bfd is never invoked, also when
\* load_binary_lem fails; under hint PE load_binary_bfd is invoked directly
\* and load_binary_lem never is.
C1_HintRouting ==
  /\ call.type = "BIN_TYPE_ELF" => ~InvokedB
  /\ call.type = "BIN_TYPE_PE" => ~InvokedA
  /\ (call.type = "BIN_TYPE_PE" /\ stage \in {"loading", "loaded"}) => InvokedB
  /\ (call.type = "BIN_TYPE_ELF" /\ stage \in {"loading", "loaded"}) => InvokedA

\* C1 witness: a load with hint ELF has returned Backend A's failure.
C1_Witness ==
  /\ Returned
  /\ call.type = "BIN_TYPE_ELF"
  /\ call.retLem = << -1 >>
  /\ call.ret = << -1 >>

\* C2: load_binary returns the result of the last backend it invoked: under
\* AUTO Backend B is invoked exactly when Backend A failed and its result is
\* returned, under ELF Backend A's result is returned, under PE Backend B's;
\* when no invoked backend accepted the file, load_binary fails.
C2_FinalResult ==
  Returned =>
    /\ call.type = "BIN_TYPE_AUTO" =>
         /\ InvokedA
         /\ InvokedB <=> call.retLem = << -1 >>
         /\ call.ret = IF InvokedB THEN call.retBfd ELSE call.retLem
    /\ call.type = "BIN_TYPE_ELF" => call.ret = call.retLem
    /\ call.type = "BIN_TYPE_PE" => call.ret = call.retBfd
    /\ call.ret \in {<< 0 >>, << -1 >>}
    /\ (call.retLem # << 0 >> /\ call.retBfd # << 0 >>) => call.ret = << -1 >>

\* C2 witness: under AUTO both backends were invoked, both failed, and
\* load_binary returned the failure.
C2_Witness ==
  /\ Returned
  /\ call.type = "BIN_TYPE_AUTO"
  /\ call.retLem = << -1 >>
  /\ call.retBfd = << -1 >>
  /\ call.ret = << -1 >>

\* C3: every parsing-library handle opened during a load_binary call is
\* closed before the call returns: whenever no call is running, no
\* libelfmaster object and no BFD handle is open.
C3_HandlesClosed ==
  pc = "idle" => (lemObj = 0 /\ bfdHandles = 0)

\* C4: when allocating or reading a section buffer fails in a backend, the
\* backend returns failure and, at its return, no Section of the Binary has a
\* non-null buffer and no buffer of that call is live: each was freed once.
C4_Rollback ==
  /\ (pc = "lem_ret" /\ call.errLem = "alloc") =>
       /\ call.retLem = << -1 >>
       /\ LiveBytes(bin.sections) = {}
       /\ DOMAIN heap = {}
       /\ ~badFree
  /\ (Returned /\ call.errBfd \in {"alloc", "read"}) =>
       /\ call.retBfd = << -1 >>
       /\ LiveBytes(bin.sections) = {}
       /\ DOMAIN heap = {}
       /\ ~badFree

\* C4 witness: Backend B failed reading the contents of a section after an
\* earlier section of the same call had got its buffer.
C4_Witness ==
  /\ Returned
  /\ call.errBfd = "read"
  /\ call.retLem = << >>
  /\ Len(bin.sections) >= 2

\* a step of unload_binary
UnloadStep ==
  pc = "idle" /\ pc' = "idle" /\ stage' \in {"unloaded", "unloaded_again"}

\* C5: unload_binary leaves every Section's buffer null, frees each buffer
\* that was non-null exactly once, changes nothing else of the Binary, and a
\* second call frees nothing and leaves the Binary as it is.
C5_UnloadIdempotent ==
  [][ UnloadStep =>
        /\ NullSections(bin'.sections) = DOMAIN bin'.sections
        /\ bin' = [bin EXCEPT !.sections =
                     [i \in DOMAIN bin.sections |->
                        [bin.sections[i] EXCEPT !.bytes = NULL]]]
        /\ LiveBytes(bin.sections) \subseteq DOMAIN heap
        /\ DOMAIN heap' = DOMAIN heap \ LiveBytes(bin.sections)
        /\ badFree' = badFree
        /\ stage \in {"unloaded", "unloaded_again"} =>
             (bin' = bin /\ heap' = heap)
    ]_vars

\* C5 witness: unload_binary was called twice on the Binary of a successful
\* load that has sections.
C5_Witness ==
  /\ stage = "unloaded_again"
  /\ call.ret = << 0 >>
  /\ Len(bin.sections) >= 1
  /\ DOMAIN heap = {}

\* C6: in the Binary of a successful load_binary call every Section has a
\* non-null buffer whose length is the Section's declared size.
C6_FreshSectionsHaveBytes ==
  (Returned /\ call.ret = << 0 >>) =>
    \A i \in DOMAIN bin.sections :
      /\ bin.sections[i].bytes # NULL
      /\ bin.sections[i].bytes \in DOMAIN heap
      /\ heap[bin.sections[i].bytes] = bin.sections[i].size

\* C7 as stated: once Backend A has opened the file, a load that succeeds
\* has the architecture of the machine Backend A detected, and for a machine
\* other than i386 and x64 load_binary fails.
C7_ArchOfTheLoad ==
  (Returned /\ call.lemMach # "none") =>
    /\ (call.lemMach = "i386" /\ call.ret = << 0 >>) =>
         (bin.arch = "ARCH_X86" /\ bin.bits = 32)
    /\ (call.lemMach = "x64" /\ call.ret = << 0 >>) =>
         (bin.arch = "ARCH_X86" /\ bin.bits = 64)
    /\ call.lemMach = "unsupported" => call.ret = << -1 >>

\* C7 amended: when Backend A returns after opening the file, the Binary has
\* (X86,32) for i386 and (X86,64) for x64; for any other machine Backend A
\* has failed with unsupported architecture, has set no architecture and has
\* extracted no symbol and no section.  load_binary then fails under hint
\* ELF, and a load that Backend A alone served has the architecture Backend A
\* detected.
C7_BackendAArch ==
  /\ (pc = "lem_ret" /\ call.lemMach = "i386") =>
       (bin.arch = "ARCH_X86" /\ bin.bits = 32)
  /\ (pc = "lem_ret" /\ call.lemMach = "x64") =>
       (bin.arch = "ARCH_X86" /\ bin.bits = 64)
  /\ (pc = "lem_ret" /\ call.lemMach = "unsupported") =>
       /\ call.retLem = << -1 >>
       /\ call.errLem = "arch"
       /\ bin.arch = "ARCH_NONE"
       /\ bin.bits = 0
       /\ bin.symbols = << >>
       /\ bin.sections = << >>
       /\ ~file.known
  /\ (Returned /\ call.lemMach = "unsupported" /\ call.type = "BIN_TYPE_ELF") =>
       call.ret = << -1 >>
  /\ (Returned /\ call.lemMach # "none" /\ ~InvokedB /\ call.ret = << 0 >>) =>
       /\ call.lemMach \in {"i386", "x64"}
       /\ bin.arch = "ARCH_X86"
       /\ bin.bits = IF call.lemMach = "i386" THEN 32 ELSE 64

\* C7 witness: Backend A has returned from a file it opened whose machine is
\* neither i386 nor x64.
C7_Witness ==
  /\ pc = "lem_ret"
  /\ call.lemMach = "unsupported"
  /\ call.retLem = << -1 >>

\* the sections of the file that are executable or allocated, with backing
\* bytes
Qualifying(f) ==
  { i \in DOMAIN f : (f[i].exec \/ f[i].alloc) /\ ~f[i].nobits }

\* C8: after a load_binary call on an empty Binary, the Binary has no more
\* Sections than the file has sections that are executable or allocated with
\* backing bytes, and no Section of a section without backing bytes.
C8_SectionCount ==
  Returned =>
    /\ Len(bin.sections) <= Cardinality(Qualifying(file.secs))
    /\ \A i \in DOMAIN bin.sections :
         /\ bin.sections[i].idx \in DOMAIN file.secs
         /\ ~file.secs[bin.sections[i].idx].nobits

\* a symbol table function has just returned, and the backend is where it
\* goes on from there
GoesOn ==
  lastTab # NoTab =>
    pc = CASE lastTab.backend = "lem" /\ lastTab.table = "symtab" -> "lem_dynsym"
           [] lastTab.backend = "lem" /\ lastTab.table = "dynsym" -> "lem_sections"
           [] lastTab.backend = "bfd" /\ lastTab.table = "symtab" -> "bfd_dynsym"
           [] lastTab.backend = "bfd" /\ lastTab.table = "dynsym" -> "bfd_sections"

OnlyFunctions ==
  \A i \in DOMAIN bin.symbols :
    /\ bin.symbols[i].type = "SYM_TYPE_FUNC"
    /\ bin.symbols[i].from \in {"STT_FUNC", "BSF_FUNCTION"}

\* C9 as stated: a symbol table that is absent, or that fails while it is
\* read, adds no Symbol, in either backend; the backend goes on to the next
\* table or to the sections; every Symbol is a function.
C9_ErrorAddsNothing ==
  /\ lastTab.status \in {"absent", "error"} => Len(bin.symbols) = lastTab.before
  /\ GoesOn
  /\ OnlyFunctions

\* C9 amended: a symbol table that is absent adds no Symbol; one that fails
\* while it is read adds no Symbol in Backend B and, in Backend A, only the
\* function symbols read before the failure; either way the backend goes on
\* to the next table or to the sections, so no load fails for its symbols;
\* every Symbol is a function.
C9_SymbolsBestEffort ==
  /\ lastTab.status = "absent" => Len(bin.symbols) = lastTab.before
  /\ (lastTab.status = "error" /\ lastTab.backend = "bfd") =>
       Len(bin.symbols) = lastTab.before
  /\ (lastTab.status = "error" /\ lastTab.backend = "lem") =>
       /\ Len(bin.symbols) >= lastTab.before
       /\ Len(bin.symbols) <= lastTab.before + MaxSyms
  /\ GoesOn
  /\ OnlyFunctions

\* C9 witness: a symbol table of Backend A failed while it was read, after a
\* function symbol had been read from it, and the backend went on.
C9_Witness ==
  /\ lastTab.backend = "lem"
  /\ lastTab.status = "error"
  /\ Len(bin.symbols) > lastTab.before
  /\ pc \in {"lem_dynsym", "lem_sections"}

\* C10: bfd_init runs at most once, has run whenever open_bfd has, and has
\* not run while Backend B was never invoked.
C10_InitOnce ==
  /\ initCount <= 1
  /\ initCount = bfd_inited
  /\ (bfdUsed /\ pc # "bfd") => initCount = 1
  /\ ~bfdUsed => initCount = 0
  /\ bfdHandles > 0 => initCount = 1
  /\ pc \in BfdPcs \ {"bfd"} => initCount = 1

\* C10 witness: Backend B is invoked again in a later call, after the call
\* in which bfd_init ran.
C10_Witness ==
  /\ pc = "bfd"
  /\ bfd_inited = 1
  /\ initCount = 1

====
